---- MODULE Spec2Model ----
(***************************************************************************)
(* flashblocks-ssz-bench: the flashblock payload and its SSZ codec         *)
(* extensions (src/payload.rs), the bounded websocket collection loop      *)
(* (src/subscriber.rs) and the six concurrent encoder tasks (src/main.rs). *)
(*                                                                         *)
(* Byte strings are sequences of numbers 0..255.  A Result is a record     *)
(* with a tag: "Ok" (with val), "Err" (an error value handed to the        *)
(* caller) or "Panic" (the thread unwinds; nothing is returned).           *)
(***************************************************************************)
EXTENDS Integers, Sequences, FiniteSets, TLC

VARIABLES
    \* ---- codec (payload.rs) ----
    usize_bytes,      \* size_of::<usize>() of the build target: 4 or 8
    x,                \* the FlashblocksPayloadV1 value being encoded
    receipts_order,   \* iteration order of x.metadata.receipts (HashMap)
    balances_order,   \* iteration order of x.metadata.new_account_balances
    buf,              \* bytes produced by as_ssz_bytes
    decoded,          \* result of from_ssz_bytes on buf
    region_kind,      \* which map region is under test: "receipts" / "balances"
    region,           \* the bytes handed to a map module's from_ssz_bytes
    region_cut,       \* number of bytes removed from the end of the region
    region_result,    \* result of the map module's from_ssz_bytes
    cpc,              \* position of the codec driver
    \* ---- gather_flashblocks (subscriber.rs) ----
    gstate,           \* Idle / Connecting / Streaming / Closed / Failed
    duration,         \* the requested collection window (timer ticks)
    connected,        \* connect_async succeeded
    stream,           \* the frames the peer will send, in order
    arrived,          \* how many of them have reached the socket
    stream_ended,     \* the peer closed the stream after its last frame
    pos,              \* how many frames the loop has taken from read.next()
    flashblocks,      \* the accumulator Vec
    remaining,        \* ticks left on the pinned sleep
    read_disabled,    \* read.next() yielded None: the select! branch is disabled
    outcome,          \* what gather_flashblocks produced: a Result or None
    at_expiry,        \* history: the accumulator at the instant the sleep elapsed
    \* ---- main (main.rs) ----
    ingested,         \* main's `flashblocks`
    original,         \* history: main's `flashblocks` when encoding started
    task_pc,          \* per label: unspawned / spawned / serialized / done
    task_copy,        \* per label: the clone moved into the task
    task_bytes,       \* per label: the task's local `serialized`
    task_result,      \* per label: the usize the task returned
    results,          \* what join_all returned, in task order
    reported,         \* the (label, bytes) lines printed so far
    mpc               \* position of main: spawn / join / report / done

codecVars  == <<usize_bytes, x, receipts_order, balances_order, buf, decoded,
                region_kind, region, region_cut, region_result, cpc>>
gatherVars == <<gstate, duration, connected, stream, arrived, stream_ended, pos, flashblocks,
                remaining, read_disabled, outcome, at_expiry>>
benchVars  == <<ingested, original, task_pc, task_copy, task_bytes, task_result,
                results, reported, mpc>>
vars == <<codecVars, gatherVars, benchVars>>

None == [tag |-> "None"]
Ok(v) == [tag |-> "Ok", val |-> v]
Err == [tag |-> "Err"]
Panic == [tag |-> "Panic"]

(***************************************************************************)
(* Bounds of the model.                                                    *)
(***************************************************************************)
MaxEntries == 2     \* entries per map field
MaxStream == 3      \* frames in a scripted inbound stream
MaxDuration == 2    \* collection window, in timer ticks
MaxIngested == 2    \* length of the sequence handed to the encoders

(***************************************************************************)
(* Integer <-> bytes.                                                      *)
(***************************************************************************)
RECURSIVE ToLeBytes(_, _)
ToLeBytes(n, w) == IF w = 0 THEN <<>> ELSE <<n % 256>> \o ToLeBytes(n \div 256, w - 1)

RECURSIVE FromLeBytes(_)
FromLeBytes(b) == IF b = <<>> THEN 0 ELSE b[1] + 256 * FromLeBytes(Tail(b))

RECURSIVE ToBeBytes(_, _)
ToBeBytes(n, w) == IF w = 0 THEN <<>> ELSE ToBeBytes(n \div 256, w - 1) \o <<n % 256>>

RECURSIVE FromBeBytes(_)
FromBeBytes(b) ==
    IF b = <<>> THEN 0 ELSE b[Len(b)] + 256 * FromBeBytes(SubSeq(b, 1, Len(b) - 1))

\* Rust's bytes[a..b] on a slice that is long enough (0-based, b exclusive).
Slice(bytes, a, b) == SubSeq(bytes, a + 1, b)

RECURSIVE Concat(_)
Concat(ss) == IF ss = <<>> THEN <<>> ELSE ss[1] \o Concat(Tail(ss))

BYTES_PER_LENGTH_OFFSET == 4
ADDRESS_LEN == 20
B256_LEN == 32
U256_LEN == 32
U64_LEN == 8
PAYLOAD_ID_LEN == 8
LEN_PREFIX_READ == 4

(***************************************************************************)
(* The receipt value and its serde_json form.  A receipt is a record       *)
(* [status, cumulative_gas_used]; its JSON text is  {s,ddd}  in ASCII,     *)
(* so the serialized length grows with the number of digits.               *)
(***************************************************************************)
RECURSIVE Digits(_)
Digits(n) == IF n < 10 THEN <<48 + n>> ELSE Digits(n \div 10) \o <<48 + (n % 10)>>

RECURSIVE DigitsValue(_)
DigitsValue(d) ==
    IF d = <<>> THEN 0 ELSE (d[Len(d)] - 48) + 10 * DigitsValue(SubSeq(d, 1, Len(d) - 1))

IsNumber(d) ==
    /\ Len(d) >= 1
    /\ \A i \in 1..Len(d) : d[i] \in 48..57
    /\ (Len(d) > 1 => d[1] # 48)

\* serde_json::to_vec(receipt)
ReceiptToJson(r) == <<123, 48 + r.status, 44>> \o Digits(r.cumulative_gas_used) \o <<125>>

\* serde_json::from_slice::<Receipt>(bytes)
ReceiptFromJson(b) ==
    IF /\ Len(b) >= 5
       /\ b[1] = 123 /\ b[Len(b)] = 125
       /\ b[2] \in {48, 49} /\ b[3] = 44
       /\ IsNumber(SubSeq(b, 4, Len(b) - 1))
    THEN Ok([status |-> b[2] - 48,
             cumulative_gas_used |-> DigitsValue(SubSeq(b, 4, Len(b) - 1))])
    ELSE Err

\* HashMap::insert: a later entry with the same key replaces the earlier one.
MapInsert(m, k, v) == [q \in (DOMAIN m) \cup {k} |-> IF q = k THEN v ELSE m[q]]

EmptyMap == [q \in {} |-> 0]

(***************************************************************************)
(* new_account_balances_ssz: address -> balance, fixed stride.             *)
(***************************************************************************)
\* U256::as_ssz_bytes: 32 bytes, little endian.
U256AsSszBytes(v) == ToLeBytes(v, U256_LEN)

\* U256::from_ssz_bytes: an error value unless exactly 32 bytes are given.
U256FromSszBytes(b) == IF Len(b) # U256_LEN THEN Err ELSE Ok(FromLeBytes(b))

\* `order` is the order in which the HashMap iterator yields the keys.
RECURSIVE NewAccountBalancesSszAppend(_, _, _)
NewAccountBalancesSszAppend(balances, order, b) ==
    IF order = <<>> THEN b
    ELSE NewAccountBalancesSszAppend(balances, Tail(order),
             b \o order[1] \o U256AsSszBytes(balances[order[1]]))

NewAccountBalancesAsSszBytes(balances, order) ==
    NewAccountBalancesSszAppend(balances, order, <<>>)

RECURSIVE NewAccountBalancesDecodeLoop(_, _, _)
NewAccountBalancesDecodeLoop(bytes, offset, acc) ==
    IF ~(offset < Len(bytes)) THEN Ok(acc)
    ELSE IF offset + ADDRESS_LEN > Len(bytes) THEN Panic        \* slice out of range
    ELSE IF offset + ADDRESS_LEN + U256_LEN > Len(bytes) THEN Panic
    ELSE LET address == Slice(bytes, offset, offset + ADDRESS_LEN)
             balance == U256FromSszBytes(
                            Slice(bytes, offset + ADDRESS_LEN, offset + ADDRESS_LEN + U256_LEN))
         IN  IF balance.tag # "Ok" THEN Err                     \* the `?`
             ELSE NewAccountBalancesDecodeLoop(bytes, offset + ADDRESS_LEN + U256_LEN,
                      MapInsert(acc, address, balance.val))

NewAccountBalancesFromSszBytes(bytes) == NewAccountBalancesDecodeLoop(bytes, 0, EmptyMap)

(***************************************************************************)
(* receipts_ssz: hash -> receipt, length-prefixed JSON values.             *)
(***************************************************************************)
\* usize::to_be_bytes: as many bytes as the target's usize has.
UsizeToBeBytes(n) == ToBeBytes(n, usize_bytes)

RECURSIVE ReceiptsSszAppend(_, _, _)
ReceiptsSszAppend(receipts, order, b) ==
    IF order = <<>> THEN b
    ELSE LET receipt_json_bytes == ReceiptToJson(receipts[order[1]])
         IN  ReceiptsSszAppend(receipts, Tail(order),
                 b \o order[1] \o UsizeToBeBytes(Len(receipt_json_bytes))
                   \o receipt_json_bytes)

ReceiptsAsSszBytes(receipts, order) == ReceiptsSszAppend(receipts, order, <<>>)

\* usize::from_be_bytes(slice.try_into().unwrap()): the array type is
\* [u8; size_of::<usize>()], so any slice of another length panics.
UsizeFromBeSlice(s) == IF Len(s) # usize_bytes THEN Panic ELSE Ok(FromBeBytes(s))

RECURSIVE ReceiptsDecodeLoop(_, _, _)
ReceiptsDecodeLoop(bytes, offset, acc) ==
    IF ~(offset < Len(bytes)) THEN Ok(acc)
    ELSE IF offset + B256_LEN > Len(bytes) THEN Panic           \* slice out of range
    ELSE IF offset + B256_LEN + LEN_PREFIX_READ > Len(bytes) THEN Panic
    ELSE LET receipt_hash == Slice(bytes, offset, offset + B256_LEN)
             o1 == offset + B256_LEN
             len == UsizeFromBeSlice(Slice(bytes, o1, o1 + LEN_PREFIX_READ))
             o2 == o1 + LEN_PREFIX_READ
         IN  IF len.tag # "Ok" THEN Panic                       \* try_into().unwrap()
             ELSE IF o2 + len.val > Len(bytes) THEN Panic       \* slice out of range
             ELSE LET receipt == ReceiptFromJson(Slice(bytes, o2, o2 + len.val))
                  IN  IF receipt.tag # "Ok" THEN Panic          \* from_slice().unwrap()
                      ELSE ReceiptsDecodeLoop(bytes, o2 + len.val,
                               MapInsert(acc, receipt_hash, receipt.val))

ReceiptsFromSszBytes(bytes) == ReceiptsDecodeLoop(bytes, 0, EmptyMap)

(***************************************************************************)
(* payload_id_ssz: the 8 raw bytes.                                        *)
(***************************************************************************)
PayloadIdAsSszBytes(payload_id) == payload_id

\* B64::from_slice panics unless exactly 8 bytes are given.
PayloadIdFromSszBytes(bytes) == IF Len(bytes) # PAYLOAD_ID_LEN THEN Panic ELSE Ok(bytes)

(***************************************************************************)
(* The derived SSZ containers.  A container writes its fixed-width fields  *)
(* and one 4-byte little-endian offset per variable-width field, then the  *)
(* variable-width fields in declared order.  Of each struct the model      *)
(* keeps one fixed-width and one variable-width representative field;      *)
(* FlashblocksPayloadV1 and FlashblocksMetadata keep all of their fields.  *)
(***************************************************************************)
U64AsSszBytes(n) == ToLeBytes(n, U64_LEN)
OffsetBytes(n) == ToLeBytes(n, BYTES_PER_LENGTH_OFFSET)

\* The offsets of the variable parts `parts` behind a fixed portion of `fixed` bytes.
RECURSIVE OffsetsOf(_, _)
OffsetsOf(parts, fixed) ==
    IF parts = <<>> THEN <<>>
    ELSE <<fixed>> \o OffsetsOf(Tail(parts), fixed + Len(parts[1]))

\* SszDecoderBuilder's checks on the offsets it reads.
OffsetsValid(offs, fixed, len) ==
    /\ offs[1] = fixed
    /\ \A i \in 1..Len(offs) : offs[i] <= len
    /\ \A i \in 2..Len(offs) : offs[i - 1] <= offs[i]

VarSlice(bytes, offs, i) ==
    Slice(bytes, offs[i], IF i = Len(offs) THEN Len(bytes) ELSE offs[i + 1])

\* Vec<Bytes>: a list of variable-width items.
TransactionsAsSszBytes(txs) ==
    LET offs == OffsetsOf(txs, BYTES_PER_LENGTH_OFFSET * Len(txs))
    IN  Concat([i \in 1..Len(txs) |-> OffsetBytes(offs[i])]) \o Concat(txs)

TransactionsFromSszBytes(bytes) ==
    IF bytes = <<>> THEN Ok(<<>>)
    ELSE IF Len(bytes) < BYTES_PER_LENGTH_OFFSET THEN Err
    ELSE LET first == FromLeBytes(Slice(bytes, 0, BYTES_PER_LENGTH_OFFSET))
             n == first \div BYTES_PER_LENGTH_OFFSET
         IN  IF first % BYTES_PER_LENGTH_OFFSET # 0 \/ first = 0 \/ first > Len(bytes)
             THEN Err
             ELSE LET offs == [i \in 1..n |->
                                  FromLeBytes(Slice(bytes, BYTES_PER_LENGTH_OFFSET * (i - 1),
                                                    BYTES_PER_LENGTH_OFFSET * i))]
                  IN  IF ~OffsetsValid(offs, first, Len(bytes)) THEN Err
                      ELSE Ok([i \in 1..n |-> VarSlice(bytes, offs, i)])

\* ExecutionPayloadFlashblockDeltaV1 (gas_used, transactions)
DELTA_FIXED_LEN == U64_LEN + BYTES_PER_LENGTH_OFFSET
DeltaAsSszBytes(d) ==
    U64AsSszBytes(d.gas_used) \o OffsetBytes(DELTA_FIXED_LEN)
        \o TransactionsAsSszBytes(d.transactions)

DeltaFromSszBytes(bytes) ==
    IF Len(bytes) < DELTA_FIXED_LEN THEN Err
    ELSE LET offs == <<FromLeBytes(Slice(bytes, U64_LEN, DELTA_FIXED_LEN))>>
         IN  IF ~OffsetsValid(offs, DELTA_FIXED_LEN, Len(bytes)) THEN Err
             ELSE LET txs == TransactionsFromSszBytes(VarSlice(bytes, offs, 1))
                  IN  IF txs.tag # "Ok" THEN txs
                      ELSE Ok([gas_used |-> FromLeBytes(Slice(bytes, 0, U64_LEN)),
                               transactions |-> txs.val])

\* ExecutionPayloadBaseV1 (block_number, extra_data)
BASE_FIXED_LEN == U64_LEN + BYTES_PER_LENGTH_OFFSET
BaseAsSszBytes(b) ==
    U64AsSszBytes(b.block_number) \o OffsetBytes(BASE_FIXED_LEN) \o b.extra_data

BaseFromSszBytes(bytes) ==
    IF Len(bytes) < BASE_FIXED_LEN THEN Err
    ELSE LET offs == <<FromLeBytes(Slice(bytes, U64_LEN, BASE_FIXED_LEN))>>
         IN  IF ~OffsetsValid(offs, BASE_FIXED_LEN, Len(bytes)) THEN Err
             ELSE Ok([block_number |-> FromLeBytes(Slice(bytes, 0, U64_LEN)),
                      extra_data |-> VarSlice(bytes, offs, 1)])

\* Option<ExecutionPayloadBaseV1>: a one-byte selector, then the value.
Some(v) == [tag |-> "Some", val |-> v]
OptionBaseAsSszBytes(base) ==
    IF base.tag = "None" THEN <<0>> ELSE <<1>> \o BaseAsSszBytes(base.val)

OptionBaseFromSszBytes(bytes) ==
    IF bytes = <<>> THEN Err
    ELSE IF bytes[1] = 0 THEN Ok(None)
    ELSE IF bytes[1] = 1
         THEN LET b == BaseFromSszBytes(Tail(bytes))
              IN  IF b.tag # "Ok" THEN b ELSE Ok(Some(b.val))
    ELSE Err

\* FlashblocksMetadata (receipts, new_account_balances, block_number)
METADATA_FIXED_LEN == 2 * BYTES_PER_LENGTH_OFFSET + U64_LEN
MetadataAsSszBytes(m, r_order, b_order) ==
    LET parts == <<ReceiptsAsSszBytes(m.receipts, r_order),
                   NewAccountBalancesAsSszBytes(m.new_account_balances, b_order)>>
        offs == OffsetsOf(parts, METADATA_FIXED_LEN)
    IN  OffsetBytes(offs[1]) \o OffsetBytes(offs[2]) \o U64AsSszBytes(m.block_number)
            \o Concat(parts)

MetadataFromSszBytes(bytes) ==
    IF Len(bytes) < METADATA_FIXED_LEN THEN Err
    ELSE LET offs == <<FromLeBytes(Slice(bytes, 0, 4)), FromLeBytes(Slice(bytes, 4, 8))>>
         IN  IF ~OffsetsValid(offs, METADATA_FIXED_LEN, Len(bytes)) THEN Err
             ELSE LET r == ReceiptsFromSszBytes(VarSlice(bytes, offs, 1))
                  IN  IF r.tag # "Ok" THEN r
                      ELSE LET b == NewAccountBalancesFromSszBytes(VarSlice(bytes, offs, 2))
                           IN  IF b.tag # "Ok" THEN b
                               ELSE Ok([receipts |-> r.val,
                                        new_account_balances |-> b.val,
                                        block_number |->
                                            FromLeBytes(Slice(bytes, 8, METADATA_FIXED_LEN))])

\* FlashblocksPayloadV1 (payload_id, index, base, diff, metadata)
PAYLOAD_FIXED_LEN == PAYLOAD_ID_LEN + U64_LEN + 3 * BYTES_PER_LENGTH_OFFSET
FlashblockAsSszBytes(fb, r_order, b_order) ==
    LET parts == <<OptionBaseAsSszBytes(fb.base), DeltaAsSszBytes(fb.diff),
                   MetadataAsSszBytes(fb.metadata, r_order, b_order)>>
        offs == OffsetsOf(parts, PAYLOAD_FIXED_LEN)
    IN  PayloadIdAsSszBytes(fb.payload_id) \o U64AsSszBytes(fb.index)
            \o OffsetBytes(offs[1]) \o OffsetBytes(offs[2]) \o OffsetBytes(offs[3])
            \o Concat(parts)

FlashblockFromSszBytes(bytes) ==
    IF Len(bytes) < PAYLOAD_FIXED_LEN THEN Err
    ELSE LET offs == <<FromLeBytes(Slice(bytes, 16, 20)), FromLeBytes(Slice(bytes, 20, 24)),
                       FromLeBytes(Slice(bytes, 24, 28))>>
         IN  IF ~OffsetsValid(offs, PAYLOAD_FIXED_LEN, Len(bytes)) THEN Err
             ELSE LET id == PayloadIdFromSszBytes(Slice(bytes, 0, PAYLOAD_ID_LEN))
                      base == OptionBaseFromSszBytes(VarSlice(bytes, offs, 1))
                      diff == DeltaFromSszBytes(VarSlice(bytes, offs, 2))
                      meta == MetadataFromSszBytes(VarSlice(bytes, offs, 3))
                  IN  IF id.tag # "Ok" THEN id
                      ELSE IF base.tag # "Ok" THEN base
                      ELSE IF diff.tag # "Ok" THEN diff
                      ELSE IF meta.tag # "Ok" THEN meta
                      ELSE Ok([payload_id |-> id.val,
                               index |-> FromLeBytes(Slice(bytes, PAYLOAD_ID_LEN, 16)),
                               base |-> base.val, diff |-> diff.val,
                               metadata |-> meta.val])

(***************************************************************************)
(* Inputs of the codec: well-formed FlashblocksPayloadV1 values.           *)
(***************************************************************************)
MaxCut == 52        \* bytes removed from the end of a map region

HashKey(k) == [i \in 1..B256_LEN |-> 160 + k]
AddressKey(k) == [i \in 1..ADDRESS_LEN |-> 16 * k]

SampleReceipts == {[status |-> 1, cumulative_gas_used |-> 7],
                   [status |-> 0, cumulative_gas_used |-> 21000]}
SampleBalances == {0, 1000}

MapsOver(keys, values) == UNION {[ks -> values] : ks \in SUBSET keys}
ReceiptMaps == MapsOver({HashKey(k) : k \in 1..MaxEntries}, SampleReceipts)
BalanceMaps == MapsOver({AddressKey(k) : k \in 1..MaxEntries}, SampleBalances)

\* The orders in which a HashMap's iterator can yield the keys of m.
Orders(m) ==
    {o \in [1..Cardinality(DOMAIN m) -> DOMAIN m] :
        \A i, j \in DOMAIN o : i # j => o[i] # o[j]}

SamplePayloadId == <<1, 2, 3, 4, 5, 6, 7, 8>>
SampleBases == {None, Some([block_number |-> 5, extra_data |-> <<9, 9>>])}
SampleDeltas == {[gas_used |-> 21000, transactions |-> <<>>],
                 [gas_used |-> 0, transactions |-> << <<2, 3>>, <<4>> >>]}
SampleIndexes == {0, 300}

Flashblock(index, base, diff, receipts, balances) ==
    [payload_id |-> SamplePayloadId, index |-> index, base |-> base, diff |-> diff,
     metadata |-> [receipts |-> receipts, new_account_balances |-> balances,
                   block_number |-> 5]]

GatherIdle ==
    /\ gstate = "Idle" /\ duration = 0 /\ connected = FALSE /\ stream = <<>> /\ arrived = 0
    /\ stream_ended = FALSE /\ pos = 0 /\ flashblocks = <<>> /\ remaining = 0
    /\ read_disabled = FALSE /\ outcome = None /\ at_expiry = None

BenchIdle ==
    /\ ingested = <<>> /\ original = <<>> /\ task_pc = <<>> /\ task_copy = <<>>
    /\ task_bytes = <<>> /\ task_result = <<>> /\ results = <<>> /\ reported = <<>>
    /\ mpc = "idle"

CodecIdle ==
    /\ usize_bytes = 8 /\ x = None /\ receipts_order = <<>> /\ balances_order = <<>>
    /\ buf = <<>> /\ decoded = None /\ region_kind = "none" /\ region = <<>>
    /\ region_cut = 0 /\ region_result = None /\ cpc = "idle"

(***************************************************************************)
(* Round trip of a whole update: as_ssz_bytes, then from_ssz_bytes.        *)
(***************************************************************************)
InitRoundTrip ==
    /\ usize_bytes \in {4, 8}
    /\ \E index \in SampleIndexes, base \in SampleBases, diff \in SampleDeltas,
          receipts \in ReceiptMaps, balances \in BalanceMaps :
          /\ x = Flashblock(index, base, diff, receipts, balances)
          /\ receipts_order \in Orders(receipts)
          /\ balances_order \in Orders(balances)
    /\ buf = <<>> /\ decoded = None
    /\ region_kind = "none" /\ region = <<>> /\ region_cut = 0 /\ region_result = None
    /\ cpc = "input"
    /\ GatherIdle /\ BenchIdle

Encode ==
    /\ cpc = "input"
    /\ buf' = FlashblockAsSszBytes(x, receipts_order, balances_order)
    /\ cpc' = "encoded"
    /\ UNCHANGED <<usize_bytes, x, receipts_order, balances_order, decoded,
                   region_kind, region, region_cut, region_result>>
    /\ UNCHANGED <<gatherVars, benchVars>>

Decode ==
    /\ cpc = "encoded"
    /\ decoded' = FlashblockFromSszBytes(buf)
    /\ cpc' = "decoded"
    /\ UNCHANGED <<usize_bytes, x, receipts_order, balances_order, buf,
                   region_kind, region, region_cut, region_result>>
    /\ UNCHANGED <<gatherVars, benchVars>>

NextRoundTrip == Encode \/ Decode

SpecRoundTrip == InitRoundTrip /\ [][NextRoundTrip]_vars

(***************************************************************************)
(* One map region: a map module's ssz_append, bytes lost from the end of   *)
(* the region, and the module's from_ssz_bytes.                            *)
(***************************************************************************)
InitRegion ==
    /\ usize_bytes \in {4, 8}
    /\ region_kind \in {"receipts", "balances"}
    /\ \E receipts \in ReceiptMaps, balances \in BalanceMaps :
          /\ region_kind = "receipts" => balances = EmptyMap
          /\ region_kind = "balances" => receipts = EmptyMap
          /\ x = Flashblock(0, None, [gas_used |-> 0, transactions |-> <<>>],
                            receipts, balances)
          /\ receipts_order \in Orders(receipts)
          /\ balances_order \in Orders(balances)
    /\ buf = <<>> /\ decoded = None
    /\ region = <<>> /\ region_cut = 0 /\ region_result = None
    /\ cpc = "input"
    /\ GatherIdle /\ BenchIdle

EncodeReceiptsRegion ==
    /\ cpc = "input" /\ region_kind = "receipts"
    /\ region' = ReceiptsAsSszBytes(x.metadata.receipts, receipts_order)
    /\ cpc' = "region"
    /\ UNCHANGED <<usize_bytes, x, receipts_order, balances_order, buf, decoded,
                   region_kind, region_cut, region_result>>
    /\ UNCHANGED <<gatherVars, benchVars>>

EncodeBalancesRegion ==
    /\ cpc = "input" /\ region_kind = "balances"
    /\ region' = NewAccountBalancesAsSszBytes(x.metadata.new_account_balances,
                                              balances_order)
    /\ cpc' = "region"
    /\ UNCHANGED <<usize_bytes, x, receipts_order, balances_order, buf, decoded,
                   region_kind, region_cut, region_result>>
    /\ UNCHANGED <<gatherVars, benchVars>>

\* The buffer reaches the decoder with its last n bytes missing.
TruncateRegion ==
    /\ cpc = "region" /\ region_cut = 0
    /\ \E n \in 1..MaxCut :
          /\ n <= Len(region)
          /\ region' = SubSeq(region, 1, Len(region) - n)
          /\ region_cut' = n
    /\ UNCHANGED <<usize_bytes, x, receipts_order, balances_order, buf, decoded,
                   region_kind, region_result, cpc>>
    /\ UNCHANGED <<gatherVars, benchVars>>

DecodeReceiptsRegion ==
    /\ cpc = "region" /\ region_kind = "receipts"
    /\ region_result' = ReceiptsFromSszBytes(region)
    /\ cpc' = "region_decoded"
    /\ UNCHANGED <<usize_bytes, x, receipts_order, balances_order, buf, decoded,
                   region_kind, region, region_cut>>
    /\ UNCHANGED <<gatherVars, benchVars>>

DecodeBalancesRegion ==
    /\ cpc = "region" /\ region_kind = "balances"
    /\ region_result' = NewAccountBalancesFromSszBytes(region)
    /\ cpc' = "region_decoded"
    /\ UNCHANGED <<usize_bytes, x, receipts_order, balances_order, buf, decoded,
                   region_kind, region, region_cut>>
    /\ UNCHANGED <<gatherVars, benchVars>>

NextRegion ==
    \/ EncodeReceiptsRegion
    \/ EncodeBalancesRegion
    \/ TruncateRegion
    \/ DecodeReceiptsRegion
    \/ DecodeBalancesRegion

SpecRegion == InitRegion /\ [][NextRegion]_vars

(***************************************************************************)
(* Claims about the codec.                                                 *)
(***************************************************************************)
ScalarsEqual(a, b) ==
    /\ a.payload_id = b.payload_id
    /\ a.index = b.index
    /\ a.base = b.base
    /\ a.diff = b.diff
    /\ a.metadata.block_number = b.metadata.block_number

\* Equality of two maps as sets of key -> value pairs.
SameEntries(m1, m2) ==
    {<<k, m1[k]>> : k \in DOMAIN m1} = {<<k, m2[k]>> : k \in DOMAIN m2}

\* C1: for every well-formed update x, whatever order its maps were emitted
\* in, decoding the encoding of x succeeds and returns x's scalar fields and
\* x's two maps as equal sets of key -> value pairs.
C1_RoundTrip ==
    cpc = "decoded" =>
        /\ decoded.tag = "Ok"
        /\ ScalarsEqual(decoded.val, x)
        /\ SameEntries(decoded.val.metadata.receipts, x.metadata.receipts)
        /\ SameEntries(decoded.val.metadata.new_account_balances,
                       x.metadata.new_account_balances)

\* C2: a receipts map with one entry whose serialized value has length L is
\* encoded as the 32-byte key, L as a 4-byte big-endian integer, and the L
\* value bytes: 32+4+L bytes in all, the prefix being the 4 bytes the decoder
\* reads.
C2_ReceiptsEntryLayout ==
    (cpc = "region" /\ region_kind = "receipts" /\ region_cut = 0
        /\ Len(receipts_order) = 1) =>
        LET key == receipts_order[1]
            value == ReceiptToJson(x.metadata.receipts[key])
            L == Len(value)
        IN  /\ Len(region) = B256_LEN + 4 + L
            /\ Slice(region, 0, B256_LEN) = key
            /\ Slice(region, B256_LEN, B256_LEN + LEN_PREFIX_READ) = ToBeBytes(L, 4)
            /\ Slice(region, B256_LEN + 4, B256_LEN + 4 + L) = value

BALANCE_STRIDE == ADDRESS_LEN + U256_LEN

\* C3: decoding a balance region whose length is no multiple of 52 returns
\* an error value (no partial entry dropped, no abort), and a region of 52*N
\* bytes decodes to the entries in it.
C3_BalancesStride ==
    (cpc = "region_decoded" /\ region_kind = "balances") =>
        IF Len(region) % BALANCE_STRIDE # 0
        THEN region_result.tag = "Err"
        ELSE /\ region_result.tag = "Ok"
             /\ \A i \in 0..((Len(region) \div BALANCE_STRIDE) - 1) :
                   LET k == Slice(region, BALANCE_STRIDE * i,
                                  BALANCE_STRIDE * i + ADDRESS_LEN)
                   IN  /\ k \in DOMAIN region_result.val
                       /\ U256AsSszBytes(region_result.val[k]) =
                              Slice(region, BALANCE_STRIDE * i + ADDRESS_LEN,
                                    BALANCE_STRIDE * (i + 1))

\* The lengths at which an encoded receipts region ends on an entry boundary.
ReceiptBoundaries ==
    {Len(ReceiptsAsSszBytes(x.metadata.receipts, SubSeq(receipts_order, 1, n))) :
        n \in 0..Len(receipts_order)}

\* C4: decoding a receipts region in which an entry is cut short (in its key,
\* its length prefix or its value) returns an error value, never a map.
C4_ReceiptsTruncated ==
    (cpc = "region_decoded" /\ region_kind = "receipts" /\ region_cut > 0
        /\ Len(region) \notin ReceiptBoundaries) =>
        region_result.tag = "Err"

(***************************************************************************)
(* The JSON text of an update (serde_json with the derived Serialize):     *)
(* byte strings as hex, numbers as decimal digits, an absent base left     *)
(* out.  Field names are shortened to one letter.                          *)
(***************************************************************************)
HexDigit(n) == IF n < 10 THEN 48 + n ELSE 87 + n

RECURSIVE Hex(_)
Hex(b) ==
    IF b = <<>> THEN <<>>
    ELSE <<HexDigit(b[1] \div 16), HexDigit(b[1] % 16)>> \o Hex(Tail(b))

\* The items of `parts`, separated by commas.
RECURSIVE Joined(_)
Joined(parts) ==
    IF parts = <<>> THEN <<>>
    ELSE IF Len(parts) = 1 THEN parts[1]
    ELSE parts[1] \o <<44>> \o Joined(Tail(parts))

\* The order in which this process's HashMap yields the keys of m.
IterationOrder(m) == CHOOSE o \in Orders(m) : TRUE

FlashblockToJson(fb) ==
    LET r == fb.metadata.receipts
        b == fb.metadata.new_account_balances
        ro == IterationOrder(r)
        bo == IterationOrder(b)
        base == IF fb.base.tag = "None" THEN <<>>
                ELSE << <<98, 123>> \o Digits(fb.base.val.block_number) \o <<44>>
                            \o Hex(fb.base.val.extra_data) \o <<125>> >>
        diff == <<100, 123>> \o Digits(fb.diff.gas_used) \o <<44, 91>>
                    \o Joined([i \in 1..Len(fb.diff.transactions) |->
                                  Hex(fb.diff.transactions[i])])
                    \o <<93, 125>>
        meta == <<109, 123, 123>>
                    \o Joined([i \in 1..Len(ro) |->
                                  Hex(ro[i]) \o <<58>> \o ReceiptToJson(r[ro[i]])])
                    \o <<125, 44, 123>>
                    \o Joined([i \in 1..Len(bo) |-> Hex(bo[i]) \o <<58>> \o Digits(b[bo[i]])])
                    \o <<125, 44>> \o Digits(fb.metadata.block_number) \o <<125>>
    IN  <<123>>
            \o Joined(<< <<112>> \o Hex(fb.payload_id), <<105>> \o Digits(fb.index) >>
                      \o base \o <<diff, meta>>)
            \o <<125>>

\* The updates the scripted peer sends: the first of a block (with its base)
\* and a later one (without, with one receipt and one balance).
SampleFlashblocks ==
    {Flashblock(0, Some([block_number |-> 5, extra_data |-> <<9>>]),
                [gas_used |-> 0, transactions |-> <<>>], EmptyMap, EmptyMap),
     Flashblock(1, None, [gas_used |-> 21000, transactions |-> << <<2>> >>],
                [k \in {HashKey(1)} |-> [status |-> 1, cumulative_gas_used |-> 7]],
                [k \in {AddressKey(1)} |-> 1000])}

\* The JSON text of each update the peer can send.
SampleJson == [fb \in SampleFlashblocks |-> FlashblockToJson(fb)]

\* serde_json::from_str::<FlashblocksPayloadV1>(text): the update whose text
\* this is, or a parse error.
FlashblockFromJson(text) ==
    IF \E fb \in SampleFlashblocks : SampleJson[fb] = text
    THEN Ok(CHOOSE fb \in SampleFlashblocks : SampleJson[fb] = text)
    ELSE Err

(***************************************************************************)
(* WebsocketSubscriber::gather_flashblocks.                                *)
(***************************************************************************)
\* What read.next() can yield: Some(Ok(msg)) with a text or a binary
\* message, or Some(Err(e)).
TextFrame(t) == [kind |-> "text", payload |-> t]
BinaryFrame == [kind |-> "binary", payload |-> <<255, 254>>]   \* not UTF-8
ErrorFrame == [kind |-> "error", payload |-> <<>>]
\* A text frame cut off before its end.
MalformedFrame ==
    LET t == FlashblockToJson(CHOOSE fb \in SampleFlashblocks : fb.index = 0)
    IN  TextFrame(SubSeq(t, 1, Len(t) - 1))

Frames ==
    {TextFrame(FlashblockToJson(fb)) : fb \in SampleFlashblocks}
        \cup {MalformedFrame, BinaryFrame, ErrorFrame}

Streams == UNION {[1..n -> Frames] : n \in 0..MaxStream}

\* Message::to_text: a text message's text; an error for bytes that are not UTF-8.
ToText(frame) == IF frame.kind = "text" THEN Ok(frame.payload) ELSE Err

IsValidFrame(frame) ==
    /\ frame.kind = "text"
    /\ FlashblockFromJson(frame.payload).tag = "Ok"

\* The message branch of the select!, applied to the accumulator `acc`:
\* what the function does next and the accumulator after it.
OnMessagePrepend(frame, acc) ==
    IF frame.kind = "error" THEN [next |-> "return", outcome |-> Err, acc |-> acc]
    ELSE LET text == ToText(frame)
         IN  IF text.tag # "Ok" THEN [next |-> "return", outcome |-> Err, acc |-> acc]
             ELSE LET flashblock == FlashblockFromJson(text.val)
                  IN  IF flashblock.tag # "Ok"
                      THEN [next |-> "panic", outcome |-> Panic, acc |-> acc]
                      ELSE [next |-> "loop", outcome |-> None,
                            acc |-> <<flashblock.val>> \o acc]

OnMessageSkipMalformed(frame, acc) ==
    IF frame.kind = "error" THEN [next |-> "return", outcome |-> Err, acc |-> acc]
    ELSE LET text == ToText(frame)
         IN  IF text.tag # "Ok" THEN [next |-> "return", outcome |-> Err, acc |-> acc]
             ELSE LET flashblock == FlashblockFromJson(text.val)
                  IN  IF flashblock.tag # "Ok"
                      THEN [next |-> "loop", outcome |-> None, acc |-> acc]
                      ELSE [next |-> "loop", outcome |-> None,
                            acc |-> Append(acc, flashblock.val)]

OnMessage(frame, acc) ==
    IF frame.kind = "error"
    THEN [next |-> "return", outcome |-> Err, acc |-> acc]             \* return Err(e)
    ELSE LET text == ToText(frame)
         IN  IF text.tag # "Ok"
             THEN [next |-> "return", outcome |-> Err, acc |-> acc]    \* to_text()?
             ELSE LET flashblock == FlashblockFromJson(text.val)
                  IN  IF flashblock.tag # "Ok"
                      THEN [next |-> "panic", outcome |-> Panic, acc |-> acc]   \* unwrap
                      ELSE [next |-> "loop", outcome |-> None,
                            acc |-> Append(acc, flashblock.val)]

InitGather ==
    /\ gstate = "Idle"
    /\ duration \in 0..MaxDuration
    /\ connected = FALSE
    /\ stream \in Streams
    /\ stream_ended \in BOOLEAN
    /\ arrived = 0 /\ pos = 0 /\ flashblocks = <<>> /\ remaining = 0
    /\ read_disabled = FALSE /\ outcome = None /\ at_expiry = None
    /\ CodecIdle /\ BenchIdle

\* gather_flashblocks is called: the accumulator is created, connect_async awaited.
Request ==
    /\ gstate = "Idle"
    /\ gstate' = "Connecting"
    /\ flashblocks' = <<>>
    /\ UNCHANGED <<duration, connected, stream, arrived, stream_ended, pos, remaining,
                   read_disabled, outcome, at_expiry>>
    /\ UNCHANGED <<codecVars, benchVars>>

\* The handshake succeeds; sleep(duration) is created and pinned.
ConnectOk ==
    /\ gstate = "Connecting"
    /\ gstate' = "Streaming"
    /\ connected' = TRUE
    /\ remaining' = duration
    /\ at_expiry' = IF duration = 0 THEN Ok(flashblocks) ELSE at_expiry
    /\ UNCHANGED <<duration, stream, arrived, stream_ended, pos, flashblocks,
                   read_disabled, outcome>>
    /\ UNCHANGED <<codecVars, benchVars>>

\* connect_async(..).await.unwrap() on a failed handshake.
ConnectFail ==
    /\ gstate = "Connecting"
    /\ gstate' = "Failed"
    /\ outcome' = Panic
    /\ UNCHANGED <<duration, connected, stream, arrived, stream_ended, pos, flashblocks,
                   remaining, read_disabled, at_expiry>>
    /\ UNCHANGED <<codecVars, benchVars>>

\* The next frame of the peer reaches the socket.
Arrive ==
    /\ gstate = "Streaming"
    /\ arrived < Len(stream)
    /\ arrived' = arrived + 1
    /\ UNCHANGED <<gstate, duration, connected, stream, stream_ended, pos, flashblocks,
                   remaining, read_disabled, outcome, at_expiry>>
    /\ UNCHANGED <<codecVars, benchVars>>

\* Time passes on the pinned sleep.
Tick ==
    /\ gstate = "Streaming"
    /\ remaining > 0
    /\ remaining' = remaining - 1
    /\ at_expiry' = IF remaining = 1 THEN Ok(flashblocks) ELSE at_expiry
    /\ UNCHANGED <<gstate, duration, connected, stream, arrived, stream_ended, pos,
                   flashblocks, read_disabled, outcome>>
    /\ UNCHANGED <<codecVars, benchVars>>

\* select!: `() = &mut sleep => break`, then Ok(flashblocks).
SelectSleep ==
    /\ gstate = "Streaming"
    /\ remaining = 0
    /\ gstate' = "Closed"
    /\ outcome' = Ok(flashblocks)
    /\ UNCHANGED <<duration, connected, stream, arrived, stream_ended, pos, flashblocks,
                   remaining, read_disabled, at_expiry>>
    /\ UNCHANGED <<codecVars, benchVars>>

\* select!: `Some(message) = read.next() => ...` with a frame that is ready.
\* select! polls its branches starting from a random one, so this branch can
\* win while the sleep is ready too.
SelectMessage ==
    /\ gstate = "Streaming"
    /\ pos < arrived
    /\ LET step == OnMessage(stream[pos + 1], flashblocks)
       IN  /\ pos' = pos + 1
           /\ flashblocks' = step.acc
           /\ gstate' = IF step.next = "loop" THEN "Streaming" ELSE "Failed"
           /\ outcome' = step.outcome
    /\ UNCHANGED <<duration, connected, stream, arrived, stream_ended, remaining,
                   read_disabled, at_expiry>>
    /\ UNCHANGED <<codecVars, benchVars>>

ReadNoneBreaks ==
    /\ gstate = "Streaming"
    /\ stream_ended /\ pos = Len(stream) /\ arrived = Len(stream)
    /\ ~read_disabled
    /\ read_disabled' = TRUE
    /\ gstate' = "Closed"
    /\ outcome' = Ok(flashblocks)
    /\ UNCHANGED <<duration, connected, stream, arrived, stream_ended, pos,
                   flashblocks, remaining, at_expiry>>
    /\ UNCHANGED <<codecVars, benchVars>>

\* select!: read.next() yields None (the stream has ended): the pattern
\* Some(message) does not match, the branch is disabled and the select!
\* goes on waiting for the sleep alone.
ReadNone ==
    /\ gstate = "Streaming"
    /\ stream_ended /\ pos = Len(stream) /\ arrived = Len(stream)
    /\ ~read_disabled
    /\ read_disabled' = TRUE
    /\ UNCHANGED <<gstate, duration, connected, stream, arrived, stream_ended, pos,
                   flashblocks, remaining, outcome, at_expiry>>
    /\ UNCHANGED <<codecVars, benchVars>>

NextGather ==
    \/ Request
    \/ ConnectOk
    \/ ConnectFail
    \/ Arrive
    \/ Tick
    \/ SelectSleep
    \/ SelectMessage
    \/ ReadNone

SpecGather == InitGather /\ [][NextGather]_vars

\* The timer fires and the runtime polls the task when an event it waits for
\* is ready.
FairSpecGather ==
    /\ SpecGather
    /\ WF_vars(ConnectOk \/ ConnectFail)
    /\ WF_vars(Tick)
    /\ WF_vars(SelectSleep)

(***************************************************************************)
(* Claims about gather_flashblocks.                                        *)
(***************************************************************************)
\* The updates carried by the first n frames of the stream, in arrival order.
Parsed(n) == [i \in 1..n |-> FlashblockFromJson(stream[i].payload).val]

TwoValidThenMalformed ==
    /\ Len(stream) = 3
    /\ IsValidFrame(stream[1]) /\ IsValidFrame(stream[2])
    /\ ~IsValidFrame(stream[3])

\* C5 (as stated): for a stream of two valid messages followed by one that
\* is malformed, no execution returns success with the two valid entries.
\* Stated over the executions in which nothing was handled after the timer
\* elapsed, so that a violation does not rest on the race of C6 and C8.
C5_NoPartialSuccess ==
    (TwoValidThenMalformed /\ duration > 0 /\ at_expiry = Ok(flashblocks)) =>
        outcome # Ok(Parsed(2))

\* C5 (amended): once the loop has handled a frame that is a transport error
\* or does not parse, the operation has failed and returned no sequence;
\* success is returned only over frames that all parsed.
C5_FailsOnceBadFrameHandled ==
    /\ \A i \in 1..pos :
          ~IsValidFrame(stream[i]) =>
              /\ gstate = "Failed"
              /\ outcome.tag \in {"Err", "Panic"}
    /\ outcome.tag = "Ok" => \A i \in 1..pos : IsValidFrame(stream[i])

C5_Witness ==
    /\ TwoValidThenMalformed
    /\ pos = 3
    /\ gstate = "Failed"
    /\ Len(flashblocks) = 2

\* C6: after a successful handshake a window of zero duration ends in success
\* with an empty sequence, also when a frame is already available.
C6_ZeroWindowEmpty ==
    (connected /\ duration = 0 /\ gstate \in {"Closed", "Failed"}) =>
        outcome = Ok(<<>>)

\* C7: the accumulator is at every moment the handled frames' updates in
\* arrival order, a prefix of the arrival stream, and a success returns it.
C7_ArrivalOrder ==
    /\ pos <= arrived /\ arrived <= Len(stream)
    /\ gstate \in {"Streaming", "Closed"} => flashblocks = Parsed(pos)
    /\ gstate = "Closed" => outcome = Ok(Parsed(pos))

C7_Witness ==
    /\ gstate = "Closed"
    /\ outcome.tag = "Ok"
    /\ Len(outcome.val) = 3
    /\ outcome.val[1] # outcome.val[2]
    /\ outcome.val[1] = outcome.val[3]

\* C8: what is returned in Closed is the sequence accumulated at the instant
\* the timer elapsed: the loop appends nothing after that.
C8_NothingAfterExpiry ==
    gstate = "Closed" => outcome = at_expiry

\* C10: once read.next() has yielded None the function stays in Streaming
\* with its accumulator untouched until the sleep elapses, then returns
\* exactly the updates of the whole stream; a success is never returned
\* before the sleep elapsed; and with the timer firing, every collection
\* that passed the handshake ends Closed or Failed.
C10_StreamEndWaitsForTimer ==
    /\ [][(gstate = "Streaming" /\ (read_disabled \/ read_disabled')) =>
            \/ gstate' = "Streaming" /\ flashblocks' = flashblocks /\ outcome' = None
            \/ /\ gstate' = "Closed" /\ remaining = 0
               /\ outcome' = Ok(Parsed(Len(stream)))]_vars
    /\ [][(gstate = "Streaming" /\ gstate' = "Closed") => remaining = 0]_vars
    /\ (gstate = "Streaming") ~> (gstate \in {"Closed", "Failed"})

C10_Witness ==
    /\ gstate = "Closed"
    /\ read_disabled
    /\ duration > 0
    /\ Len(outcome.val) >= 1

(***************************************************************************)
(* main: six encoder tasks over clones of the loaded sequence, join_all,   *)
(* and the report of the byte counts.                                      *)
(***************************************************************************)
Labels == <<"JSON", "gzip JSON", "brotli JSON", "SSZ", "gzip SSZ", "brotli SSZ">>
TASKS == 6

\* serde_json::to_vec(&flashblocks)
JsonOfVec(fbs) ==
    <<91>> \o Joined([i \in 1..Len(fbs) |-> FlashblockToJson(fbs[i])]) \o <<93>>

\* flashblocks.as_ssz_bytes(): a list of variable-width items.
SszOfVec(fbs) ==
    LET items == [i \in 1..Len(fbs) |->
                     FlashblockAsSszBytes(fbs[i],
                         IterationOrder(fbs[i].metadata.receipts),
                         IterationOrder(fbs[i].metadata.new_account_balances))]
        offs == OffsetsOf(items, BYTES_PER_LENGTH_OFFSET * Len(items))
    IN  Concat([i \in 1..Len(items) |-> OffsetBytes(offs[i])]) \o Concat(items)

\* The compressors are libraries; the model stands a run-length coder in for
\* them: a deterministic function of the bytes that depends on their order.
Runs(b) == Cardinality({i \in 1..Len(b) : i = 1 \/ b[i] # b[i - 1]})

GZIP_FRAME == 18
BROTLI_FRAME == 2
GzipLen(b) == GZIP_FRAME + 2 * Runs(b)
BrotliLen(b) == BROTLI_FRAME + 2 * Runs(b)

IsJsonTask(t) == t \in 1..3

\* The first statement of task t: serialize its own copy.
Serialized(t, copy) == IF IsJsonTask(t) THEN JsonOfVec(copy) ELSE SszOfVec(copy)

\* The byte count task t returns from its serialized bytes.
ByteCount(t, bytes) ==
    IF t \in {1, 4} THEN Len(bytes)
    ELSE IF t \in {2, 5} THEN GzipLen(bytes)
    ELSE BrotliLen(bytes)

InitBench ==
    /\ usize_bytes \in {4, 8}
    /\ x = None /\ receipts_order = <<>> /\ balances_order = <<>>
    /\ buf = <<>> /\ decoded = None /\ region_kind = "none" /\ region = <<>>
    /\ region_cut = 0 /\ region_result = None /\ cpc = "idle"
    /\ GatherIdle
    /\ ingested \in UNION {[1..n -> SampleFlashblocks] : n \in 0..MaxIngested}
    /\ original = ingested
    /\ task_pc = [t \in 1..TASKS |-> "unspawned"]
    /\ task_copy = [t \in 1..TASKS |-> <<>>]
    /\ task_bytes = [t \in 1..TASKS |-> <<>>]
    /\ task_result = [t \in 1..TASKS |-> 0]
    /\ results = <<>> /\ reported = <<>>
    /\ mpc = "spawn"

\* task::spawn(encode_as_..(flashblocks.clone())), in the order of the vec!.
Spawn(t) ==
    /\ mpc = "spawn"
    /\ task_pc[t] = "unspawned"
    /\ \A u \in 1..(t - 1) : task_pc[u] # "unspawned"
    /\ task_copy' = [task_copy EXCEPT ![t] = ingested]
    /\ task_pc' = [task_pc EXCEPT ![t] = "spawned"]
    /\ mpc' = IF t = TASKS THEN "join" ELSE "spawn"
    /\ UNCHANGED <<ingested, original, task_bytes, task_result, results, reported>>
    /\ UNCHANGED <<codecVars, gatherVars>>

\* A worker thread runs the task's serialization.
Serialize(t) ==
    /\ task_pc[t] = "spawned"
    /\ task_bytes' = [task_bytes EXCEPT ![t] = Serialized(t, task_copy[t])]
    /\ task_pc' = [task_pc EXCEPT ![t] = "serialized"]
    /\ UNCHANGED <<ingested, original, task_copy, task_result, results, reported, mpc>>
    /\ UNCHANGED <<codecVars, gatherVars>>

\* The task compresses (or not), returns its byte count and drops its locals.
Finish(t) ==
    /\ task_pc[t] = "serialized"
    /\ task_result' = [task_result EXCEPT ![t] = ByteCount(t, task_bytes[t])]
    /\ task_bytes' = [task_bytes EXCEPT ![t] = <<>>]
    /\ task_copy' = [task_copy EXCEPT ![t] = <<>>]
    /\ task_pc' = [task_pc EXCEPT ![t] = "done"]
    /\ UNCHANGED <<ingested, original, results, reported, mpc>>
    /\ UNCHANGED <<codecVars, gatherVars>>

JoinReadyAny == \E t \in 1..TASKS : task_pc[t] = "done"

\* join_all resolves when every JoinHandle has resolved.
JoinReady == \A t \in 1..TASKS : task_pc[t] = "done"

Join ==
    /\ mpc = "join"
    /\ JoinReady
    /\ results' = [t \in 1..TASKS |-> <<Labels[t], task_result[t]>>]
    /\ mpc' = "report"
    /\ UNCHANGED <<ingested, original, task_pc, task_copy, task_bytes, task_result,
                   reported>>
    /\ UNCHANGED <<codecVars, gatherVars>>

\* println!("{}: {:?} bytes in {:?}", label, bytes, duration), one result at a time.
Report ==
    /\ mpc = "report"
    /\ reported' = Append(reported, results[Len(reported) + 1])
    /\ mpc' = IF Len(reported) + 1 = TASKS THEN "done" ELSE "report"
    /\ UNCHANGED <<ingested, original, task_pc, task_copy, task_bytes, task_result,
                   results>>
    /\ UNCHANGED <<codecVars, gatherVars>>

NextBench ==
    \/ \E t \in 1..TASKS : Spawn(t)
    \/ \E t \in 1..TASKS : Serialize(t)
    \/ \E t \in 1..TASKS : Finish(t)
    \/ Join
    \/ Report

SpecBench == InitBench /\ [][NextBench]_vars

\* C9: whatever the interleaving of the six tasks, the byte count reported
\* under each label is that encoder's byte count of the loaded sequence, the
\* loaded sequence is unchanged, and nothing is reported before all six
\* tasks have finished.
C9_EncodersIndependent ==
    /\ ingested = original
    /\ reported # <<>> => \A t \in 1..TASKS : task_pc[t] = "done"
    /\ \A i \in 1..Len(reported) :
          reported[i] = <<Labels[i], ByteCount(i, Serialized(i, original))>>

C9_Witness ==
    /\ mpc = "done"
    /\ Len(reported) = TASKS
    /\ Len(original) >= 2
    /\ reported[1][2] # reported[4][2]
    /\ reported[2][2] # reported[5][2]

====
